---------------------------- MODULE Spec2Model ----------------------------
(***************************************************************************)
(* A model of the larynx text-to-speech pipeline:                          *)
(*   - main (src/larynx/__main__.py): the thread pool, the two model load  *)
(*     tasks, the loop over the input lines, the audio sinks;              *)
(*   - text_to_speech (src/larynx_runtime/__init__.py): the phoneme        *)
(*     vocabulary cache of the language object, the loop over the          *)
(*     sentences, the encoding, the mel and vocoder calls, the real-time   *)
(*     factor.                                                             *)
(* main hands each non-blank line and the two load futures to             *)
(* text_to_speech and loops over what the call hands back; text_to_speech  *)
(* hands back one audio for the whole text.  A stage can only run on the   *)
(* model its load future resolves to (specification 4.4: the call blocks   *)
(* on first use until the handle is ready).                                *)
(* Spec is a run of main.  SpecCalls is a host that runs several           *)
(* text_to_speech calls concurrently on one language object.               *)
(* SpecStartup is the start of the program: get_args over the options,     *)
(* then load_tts_model and load_vocoder_model on the resolved type tags.   *)
(* SpecPhonemes applies the phoneme map transform of main and the          *)
(* encoding of text_to_speech to inputs drawn from bounded sets.           *)
(***************************************************************************)
EXTENDS Integers, Sequences, FiniteSets, TLC

\* ------------------------------------------------------------- bounds

\* Lines the input holds, at most.
MaxLines == 2
\* Sentences the tokenizer returns for one text, at most.
MaxSentences == 2
\* Largest explicit value of --max-thread-workers that is tried.
MaxWorkersArg == 2
\* Threads of a pool built with max_workers=None (the library's default).
DefaultWorkers == 5
\* Concurrent callers of text_to_speech in SpecCalls.
NCallers == 2
\* Largest elapsed inference time (in clock ticks) that is tried.
MaxInferTicks == 1

\* ------------------------------------------------- phonemes, vocabulary

\* A phoneme is a string; it is modelled as the sequence of its characters,
\* so that phoneme[0] is Head and phoneme[1:] is Tail.
STRESS_PRIMARY == "'"
STRESS_SECONDARY == ","
BREAK_MAJOR == <<"||">>

\* gruut_ipa.IPA.is_stress(c)
IsStress(ch) == ch \in {STRESS_PRIMARY, STRESS_SECONDARY}

\* gruut_lang.id_to_phonemes(): the ordered phoneme list of the language.
id_to_phonemes ==
    << <<"_">>, <<"||">>, <<"'">>, <<",">>, <<"a">>, <<"b">> >>

Range(s) == {s[i] : i \in DOMAIN s}

\* The mutant of PhonemeToId: the ids count from 1.
PhonemeToId_fromOne(phonemes_list) ==
    [p \in Range(phonemes_list) |->
        CHOOSE i \in DOMAIN phonemes_list :
            /\ phonemes_list[i] = p
            /\ \A j \in DOMAIN phonemes_list :
                  phonemes_list[j] = p => j <= i]

\* {p: i for i, p in enumerate(phonemes_list)}: ids count from 0, and of two
\* equal entries of the list the later one gives the id.
PhonemeToId(phonemes_list) ==
    [p \in Range(phonemes_list) |->
        (CHOOSE i \in DOMAIN phonemes_list :
            /\ phonemes_list[i] = p
            /\ \A j \in DOMAIN phonemes_list :
                  phonemes_list[j] = p => j <= i) - 1]

\* What phonemizer.phonemize may return for one sentence: a sequence of
\* words, each a sequence of pronunciations, each a sequence of phonemes.
SentencePronsChoices ==
    { <<>>,                                        \* no word
      << <<>> >>,                                  \* a word without pronunciation
      << << << <<>> >> >> >>,                      \* only an empty phoneme
      << << << <<"a">>, <<"b">> >> >> >>,          \* no final break
      << << << <<"a">> >> >>, << <<BREAK_MAJOR>> >> >>,  \* ends with a major break
      << << <<BREAK_MAJOR>> >> >>,                 \* a major break alone
      << << << <<"'", "a">> >> >> >>,              \* stressed phoneme
      << << << <<"'">> >> >> >>,                   \* the stress marker alone
      << << << <<"z">> >> >> >>,                   \* a phoneme the vocabulary lacks
      << << << <<"b">> >>, << <<"a">> >> >> >> }   \* two pronunciations

\* Lines 73-82: the symbols one phoneme adds to first_pron.
SplitStress(phoneme) ==
    IF phoneme = <<>> THEN <<>>
    ELSE IF IsStress(Head(phoneme))
         THEN << <<Head(phoneme)>>, Tail(phoneme) >>
         ELSE << phoneme >>

RECURSIVE PronPhonemes(_)
PronPhonemes(pron) ==
    IF pron = <<>> THEN <<>>
    ELSE SplitStress(Head(pron)) \o PronPhonemes(Tail(pron))

\* Lines 70-82: the first pronunciation of every word that has one.
RECURSIVE FirstPron(_)
FirstPron(sentence_prons) ==
    IF sentence_prons = <<>> THEN <<>>
    ELSE (IF Head(sentence_prons) # <<>>
          THEN PronPhonemes(Head(sentence_prons)[1])
          ELSE <<>>) \o FirstPron(Tail(sentence_prons))

\* The mutant of EnsureBreaks: the second major break is forgotten.
EnsureBreaks_once(first_pron) ==
    IF first_pron[Len(first_pron)] # BREAK_MAJOR
    THEN Append(first_pron, BREAK_MAJOR)
    ELSE first_pron

\* Lines 87-92, for a non-empty first_pron.
EnsureBreaks(first_pron) ==
    Append(IF first_pron[Len(first_pron)] # BREAK_MAJOR
           THEN Append(first_pron, BREAK_MAJOR)
           ELSE first_pron,
           BREAK_MAJOR)

\* The mutant of Extend: the new items go in front.
Extend_front(list, items) == items \o list

\* list.extend(items), line 94.
Extend(list, items) == list \o items

KeyError == "KeyError"

\* The mutant of EncodeIds: an unknown symbol gets the id 0.
EncodeIds_default(phoneme_to_id, text_phonemes) ==
    [raises |-> "none",
     ids |-> [i \in DOMAIN text_phonemes |->
                IF text_phonemes[i] \in DOMAIN phoneme_to_id
                THEN phoneme_to_id[text_phonemes[i]]
                ELSE 0]]

\* Line 100: [phoneme_to_id[p] for p in text_phonemes]; a symbol that is not
\* a key raises KeyError.
EncodeIds(phoneme_to_id, text_phonemes) ==
    IF \E i \in DOMAIN text_phonemes : text_phonemes[i] \notin DOMAIN phoneme_to_id
    THEN [raises |-> KeyError, ids |-> <<>>]
    ELSE [raises |-> "none",
          ids |-> [i \in DOMAIN text_phonemes |-> phoneme_to_id[text_phonemes[i]]]]

\* ------------------------------------------------------------- state

VARIABLES
    args,        \* the parsed arguments main reads: max_thread_workers, sink
    texts,       \* the number of lines the input holds
    lineNo,      \* lines read so far (Spec); calls started so far (SpecCalls)
    mainPc,      \* where main is
    tasks,       \* the work items submitted to the executor, in order
    futures,     \* tts_load_future, vocoder_load_future: index in tasks, 0 = unset
    all_audios,  \* main's list of audios to combine at the end
    emitted,     \* the audios written to the sink, in order
    gruut_lang,  \* the phoneme_to_id attribute of the language: {} = absent
    call,        \* the locals of each text_to_speech call
    errLine,     \* history: the line whose call raised, 0 = none
    vocabStores, \* history: how often phoneme_to_id was stored
    handlesUsed, \* history: the futures whose model ran an inference
    cli,         \* get_args and the two loaders: the flags, the resolved args
    phon         \* the phoneme map transform and the vocabulary round trip

vars == <<args, texts, lineNo, mainPc, tasks, futures, all_audios, emitted,
          gruut_lang, call, errLine, vocabStores, handlesUsed, cli, phon>>

mainVars == <<cli, phon, args, texts, lineNo, mainPc, all_audios, emitted, errLine>>

\* cli and phon outside get_args and outside the phoneme functions.
NoCli == [pc |-> "done"]
NoPhon == [pc |-> "done"]

Callers == 1..NCallers

\* main is the caller 1.
MainCaller == 1

\* --max-thread-workers values: below 1, 1, and above.
WorkerArgs == 0..MaxWorkersArg

\* "stream": --stream-raw, --interactive or --output-dir, written per audio;
\* "combine": none of them, all audio written at the end.
Sinks == {"stream", "combine"}

IdleCall ==
    [pc |-> "idle", line |-> 0, phoneme_to_id |-> {}, n_sent |-> 0, s_idx |-> 0,
     sentence_prons |-> <<>>, first_pron |-> <<>>, text_phonemes |-> <<>>,
     text_sents |-> <<>>, phoneme_ids |-> <<>>, melInput |-> "none",
     melCalls |-> 0, vocCalls |-> 0,
     handed |-> 0, results |-> <<>>, err |-> "none"]

\* Lines 132-135: ThreadPoolExecutor(max_workers=None if arg < 1 else arg).
\* The mutant of PoolSize: the flag is ignored.
PoolSize_default(max_thread_workers) == DefaultWorkers

PoolSize(max_thread_workers) ==
    IF max_thread_workers < 1 THEN DefaultWorkers ELSE max_thread_workers

\* The mutant of SubmitTask: the work item is queued twice.
SubmitTask_twice(ts, kind) ==
    ts \o << [kind |-> kind, state |-> "queued"], [kind |-> kind, state |-> "queued"] >>

\* executor.submit(fn): the work item joins the queue.
SubmitTask(ts, kind) == Append(ts, [kind |-> kind, state |-> "queued"])

Running == {i \in DOMAIN tasks : tasks[i].state = "running"}

TasksOf(kind) == {i \in DOMAIN tasks : tasks[i].kind = kind}

Init ==
    /\ args \in [max_thread_workers : WorkerArgs, sink : Sinks]
    /\ texts \in 0..MaxLines
    /\ lineNo = 0
    /\ mainPc = "start"
    /\ tasks = <<>>
    /\ futures = [tts |-> 0, vocoder |-> 0]
    /\ all_audios = <<>>
    /\ emitted = <<>>
    /\ gruut_lang = {}
    /\ call = [c \in Callers |-> IdleCall]
    /\ errLine = 0
    /\ vocabStores = 0
    /\ handlesUsed = {}
    /\ cli = NoCli
    /\ phon = NoPhon

\* ------------------------------------------------- the executor (main)

\* Line 189: tts_load_future = executor.submit(async_load_tts)
SubmitTts ==
    /\ mainPc = "start"
    /\ tasks' = SubmitTask(tasks, "tts")
    /\ futures' = [futures EXCEPT !.tts = Len(tasks')]
    /\ mainPc' = "submit_vocoder"
    /\ UNCHANGED <<cli, phon, args, texts, lineNo, all_audios, emitted, gruut_lang, call,
                   errLine, vocabStores, handlesUsed>>

\* Line 190: vocoder_load_future = executor.submit(async_load_vocoder)
SubmitVocoder ==
    /\ mainPc = "submit_vocoder"
    /\ tasks' = SubmitTask(tasks, "vocoder")
    /\ futures' = [futures EXCEPT !.vocoder = Len(tasks')]
    /\ mainPc' = "read"
    /\ UNCHANGED <<cli, phon, args, texts, lineNo, all_audios, emitted, gruut_lang, call,
                   errLine, vocabStores, handlesUsed>>

\* A worker thread of the pool takes the oldest queued work item; the pool
\* has at most PoolSize threads, so at most that many items run.
StartTask(i) ==
    /\ i \in DOMAIN tasks
    /\ tasks[i].state = "queued"
    /\ \A j \in 1..(i - 1) : tasks[j].state # "queued"
    /\ Cardinality(Running) < PoolSize(args.max_thread_workers)
    /\ tasks' = [tasks EXCEPT ![i].state = "running"]
    /\ UNCHANGED <<mainVars, futures, gruut_lang, call, vocabStores, handlesUsed>>

\* async_load_tts / async_load_vocoder return the model (lines 145-186), or
\* the loader raises and the future keeps the exception.
FinishTask(i) ==
    /\ i \in DOMAIN tasks
    /\ tasks[i].state = "running"
    /\ \E outcome \in {"done", "failed"} :
          tasks' = [tasks EXCEPT ![i].state = outcome]
    /\ UNCHANGED <<mainVars, futures, gruut_lang, call, vocabStores, handlesUsed>>

\* ------------------------------------------------- text_to_speech

ttsUnchanged == <<mainVars, tasks, futures>>

NewCall(line) == [IdleCall EXCEPT !.pc = "vocab_get", !.line = line]

\* Line 42: phoneme_to_id = getattr(gruut_lang, "phoneme_to_id", None)
GetVocab(c) ==
    /\ call[c].pc = "vocab_get"
    /\ call' = [call EXCEPT ![c].phoneme_to_id = gruut_lang,
                            ![c].pc = IF gruut_lang = {} THEN "vocab_build"
                                                         ELSE "tokenize"]
    /\ UNCHANGED <<ttsUnchanged, gruut_lang, vocabStores, handlesUsed>>

\* Lines 43-48: the attribute was absent when this call read it: build the
\* mapping and store it on the language object.
BuildVocab(c) ==
    /\ call[c].pc = "vocab_build"
    /\ LET phoneme_to_id == PhonemeToId(id_to_phonemes) IN
          /\ call' = [call EXCEPT ![c].phoneme_to_id = {phoneme_to_id},
                                  ![c].pc = "tokenize"]
          /\ gruut_lang' = {phoneme_to_id}
    /\ vocabStores' = vocabStores + 1
    /\ UNCHANGED <<ttsUnchanged, handlesUsed>>

\* Lines 50-56: sentences = list(tokenizer.tokenize(text, ...))
Tokenize(c) ==
    /\ call[c].pc = "tokenize"
    /\ \E n \in 0..MaxSentences :
          call' = [call EXCEPT ![c].n_sent = n, ![c].s_idx = 0, ![c].pc = "loop"]
    /\ UNCHANGED <<ttsUnchanged, gruut_lang, vocabStores, handlesUsed>>

\* Lines 61-94: one turn of the loop over the sentences.
PhonemizeSentence(c) ==
    /\ call[c].pc = "loop"
    /\ call[c].s_idx < call[c].n_sent
    /\ \E sentence_prons \in SentencePronsChoices :
          LET idx == call[c].s_idx + 1
              first_pron == FirstPron(sentence_prons)
          IN  IF first_pron = <<>>
              THEN \* lines 84-85: continue
                   call' = [call EXCEPT ![c].s_idx = idx,
                                        ![c].sentence_prons = sentence_prons,
                                        ![c].first_pron = <<>>]
              ELSE call' = [call EXCEPT
                      ![c].s_idx = idx,
                      ![c].sentence_prons = sentence_prons,
                      ![c].first_pron = EnsureBreaks(first_pron),
                      ![c].text_phonemes =
                          Extend(call[c].text_phonemes, EnsureBreaks(first_pron)),
                      ![c].text_sents = Extend(call[c].text_sents, <<idx>>)]
    /\ UNCHANGED <<ttsUnchanged, gruut_lang, vocabStores, handlesUsed>>

\* Line 65: phonemizer.phonemize raises.
PhonemizeRaises(c) ==
    /\ call[c].pc = "loop"
    /\ call[c].s_idx < call[c].n_sent
    /\ call' = [call EXCEPT ![c].pc = "raised", ![c].err = "PhonemizeError"]
    /\ UNCHANGED <<ttsUnchanged, gruut_lang, vocabStores, handlesUsed>>

\* Line 100, after the loop: the ids of all the text's phonemes.  (The
\* locals of the loop are not read again and are dropped.)
Encode(c) ==
    /\ call[c].pc = "loop"
    /\ call[c].s_idx = call[c].n_sent
    /\ LET enc == EncodeIds(CHOOSE m \in call[c].phoneme_to_id : TRUE,
                            call[c].text_phonemes)
       IN  IF enc.raises # "none"
           THEN call' = [call EXCEPT ![c].pc = "raised", ![c].err = enc.raises,
                                     ![c].sentence_prons = <<>>,
                                     ![c].first_pron = <<>>]
           ELSE call' = [call EXCEPT ![c].pc = "mel", ![c].phoneme_ids = enc.ids,
                                     ![c].sentence_prons = <<>>,
                                     ![c].first_pron = <<>>]
    /\ UNCHANGED <<ttsUnchanged, gruut_lang, vocabStores, handlesUsed>>

\* The model a stage uses is the result of its load future: the call waits
\* until the load task is done.
ModelReady(kind) ==
    /\ futures[kind] \in DOMAIN tasks
    /\ tasks[futures[kind]].state = "done"

ModelFailed(kind) ==
    /\ futures[kind] \in DOMAIN tasks
    /\ tasks[futures[kind]].state = "failed"

\* Resolving the future of a failed load raises the loader's exception.
LoadErrorSurfaces(c) ==
    /\ \/ call[c].pc = "mel" /\ ModelFailed("tts")
       \/ call[c].pc = "vocoder" /\ ModelFailed("vocoder")
    /\ call' = [call EXCEPT ![c].pc = "raised", ![c].err = "LoadError"]
    /\ UNCHANGED <<ttsUnchanged, gruut_lang, vocabStores, handlesUsed>>

\* What the mel stage was handed, kept as history.
MelInput(phoneme_ids) == IF phoneme_ids = <<>> THEN "empty" ELSE "nonempty"

\* Line 105: mels = tts_model.phonemes_to_mels(phoneme_ids).  (The phonemes
\* and the ids are not read again and are dropped.)
MelInference(c) ==
    /\ call[c].pc = "mel"
    /\ ModelReady("tts")
    /\ call' = [call EXCEPT ![c].pc = "vocoder", ![c].melCalls = @ + 1,
                            ![c].melInput = MelInput(call[c].phoneme_ids),
                            ![c].text_phonemes = <<>>,
                            ![c].phoneme_ids = <<>>]
    /\ handlesUsed' = handlesUsed \cup {futures.tts}
    /\ UNCHANGED <<ttsUnchanged, gruut_lang, vocabStores>>

\* Line 105 raises.
MelRaises(c) ==
    /\ call[c].pc = "mel"
    /\ ModelReady("tts")
    /\ call' = [call EXCEPT ![c].pc = "raised", ![c].err = "InferenceError",
                            ![c].melCalls = @ + 1,
                            ![c].melInput = MelInput(call[c].phoneme_ids),
                            ![c].text_phonemes = <<>>,
                            ![c].phoneme_ids = <<>>]
    /\ handlesUsed' = handlesUsed \cup {futures.tts}
    /\ UNCHANGED <<ttsUnchanged, gruut_lang, vocabStores>>

\* Line 114: audio = vocoder_model.mels_to_audio(mels)
VocoderInference(c) ==
    /\ call[c].pc = "vocoder"
    /\ ModelReady("vocoder")
    /\ call' = [call EXCEPT ![c].pc = "rtf", ![c].vocCalls = @ + 1]
    /\ handlesUsed' = handlesUsed \cup {futures.vocoder}
    /\ UNCHANGED <<ttsUnchanged, gruut_lang, vocabStores>>

\* Line 114 raises.
VocoderRaises(c) ==
    /\ call[c].pc = "vocoder"
    /\ ModelReady("vocoder")
    /\ call' = [call EXCEPT ![c].pc = "raised", ![c].err = "InferenceError",
                            ![c].vocCalls = @ + 1]
    /\ handlesUsed' = handlesUsed \cup {futures.vocoder}
    /\ UNCHANGED <<ttsUnchanged, gruut_lang, vocabStores>>

\* Lines 123-134: real_time_factor = audio_duration_sec / infer_sec, then
\* return audio: the one audio of the whole text.
ComputeRtfAndReturn(c) ==
    /\ call[c].pc = "rtf"
    /\ \E infer_sec \in 0..MaxInferTicks :
          IF infer_sec = 0
          THEN call' = [call EXCEPT ![c].pc = "raised",
                                    ![c].err = "ZeroDivisionError"]
          ELSE call' = [call EXCEPT
                  ![c].pc = "returned",
                  ![c].results = << [line |-> call[c].line,
                                     sents |-> call[c].text_sents] >>,
                  ![c].handed = 1]
    /\ UNCHANGED <<ttsUnchanged, gruut_lang, vocabStores, handlesUsed>>

TtsStep(c) ==
    \/ GetVocab(c)
    \/ BuildVocab(c)
    \/ Tokenize(c)
    \/ PhonemizeSentence(c)
    \/ PhonemizeRaises(c)
    \/ Encode(c)
    \/ MelInference(c)
    \/ MelRaises(c)
    \/ VocoderInference(c)
    \/ VocoderRaises(c)
    \/ ComputeRtfAndReturn(c)

\* ------------------------------------------------- main's loop

\* Lines 213-217: a line that is empty after strip() is skipped.
ReadBlankLine ==
    /\ mainPc = "read"
    /\ lineNo < texts
    /\ lineNo' = lineNo + 1
    /\ UNCHANGED <<cli, phon, args, texts, mainPc, tasks, futures, all_audios, emitted,
                   gruut_lang, call, errLine, vocabStores, handlesUsed>>

\* Lines 213-237: the next line is text: text_to_speech is called with it
\* and with the two load futures.
ReadTextLine ==
    /\ mainPc = "read"
    /\ lineNo < texts
    /\ lineNo' = lineNo + 1
    /\ call' = [call EXCEPT ![MainCaller] = NewCall(lineNo + 1)]
    /\ mainPc' = "in_call"
    /\ UNCHANGED <<cli, phon, args, texts, tasks, futures, all_audios, emitted,
                   gruut_lang, errLine, vocabStores, handlesUsed>>

\* The mutant of AfterError: main catches the error and goes on.
AfterError_continue == "read"

\* Lines 222-303 sit in no try block: an exception leaves main.
AfterError == "failed"

ErrorPropagates ==
    /\ mainPc = "in_call"
    /\ call[MainCaller].pc = "raised"
    /\ mainPc' = AfterError
    /\ errLine' = lineNo
    /\ UNCHANGED <<cli, phon, args, texts, lineNo, tasks, futures, all_audios, emitted,
                   gruut_lang, call, vocabStores, handlesUsed>>

\* Lines 241-303: one turn of the loop over what the call handed back.
EmitAudio ==
    /\ mainPc = "in_call"
    /\ call[MainCaller].pc = "returned"
    /\ call[MainCaller].results # <<>>
    /\ LET audio == Head(call[MainCaller].results) IN
          IF args.sink = "stream"
          THEN emitted' = Append(emitted, audio) /\ UNCHANGED all_audios
          ELSE all_audios' = Append(all_audios, audio) /\ UNCHANGED emitted
    /\ call' = [call EXCEPT ![MainCaller].results = Tail(@)]
    /\ UNCHANGED <<cli, phon, args, texts, lineNo, mainPc, tasks, futures, gruut_lang,
                   errLine, vocabStores, handlesUsed>>

\* The loop of line 241 is exhausted: back to the loop of line 213.
NextLine ==
    /\ mainPc = "in_call"
    /\ call[MainCaller].pc = "returned"
    /\ call[MainCaller].results = <<>>
    /\ mainPc' = "read"
    /\ UNCHANGED <<cli, phon, args, texts, lineNo, tasks, futures, all_audios, emitted,
                   gruut_lang, call, errLine, vocabStores, handlesUsed>>

\* The input is exhausted.
EndOfInput ==
    /\ mainPc = "read"
    /\ lineNo = texts
    /\ mainPc' = "final"
    /\ UNCHANGED <<cli, phon, args, texts, lineNo, tasks, futures, all_audios, emitted,
                   gruut_lang, call, errLine, vocabStores, handlesUsed>>

\* Lines 307-315: the combined audio is written, and main returns.
FinalWrite ==
    /\ mainPc = "final"
    /\ emitted' = IF all_audios # <<>> THEN emitted \o all_audios ELSE emitted
    /\ mainPc' = "done"
    /\ UNCHANGED <<cli, phon, args, texts, lineNo, tasks, futures, all_audios,
                   gruut_lang, call, errLine, vocabStores, handlesUsed>>

Next ==
    \/ SubmitTts
    \/ SubmitVocoder
    \/ \E i \in 1..4 : StartTask(i)
    \/ \E i \in 1..4 : FinishTask(i)
    \/ ReadBlankLine
    \/ ReadTextLine
    \/ TtsStep(MainCaller)
    \/ LoadErrorSurfaces(MainCaller)
    \/ ErrorPropagates
    \/ EmitAudio
    \/ NextLine
    \/ EndOfInput
    \/ FinalWrite

Spec == Init /\ [][Next]_vars

\* ------------------------------------------------- concurrent callers

\* A host that has both models loaded and runs text_to_speech from several
\* threads on one language object.
InitCalls ==
    /\ args = [max_thread_workers |-> 0, sink |-> "stream"]
    /\ texts = 0
    /\ lineNo = 0
    /\ mainPc = "lib"
    /\ tasks = << [kind |-> "tts", state |-> "done"],
                  [kind |-> "vocoder", state |-> "done"] >>
    /\ futures = [tts |-> 1, vocoder |-> 2]
    /\ all_audios = <<>>
    /\ emitted = <<>>
    /\ gruut_lang = {}
    /\ call = [c \in Callers |-> IdleCall]
    /\ errLine = 0
    /\ vocabStores = 0
    /\ handlesUsed = {}
    /\ cli = NoCli
    /\ phon = NoPhon

\* A thread calls text_to_speech(text, gruut_lang, tts_model, vocoder_model).
StartCall(c) ==
    /\ call[c].pc = "idle"
    /\ lineNo < MaxLines
    /\ lineNo' = lineNo + 1
    /\ call' = [call EXCEPT ![c] = NewCall(lineNo + 1)]
    /\ UNCHANGED <<cli, phon, args, texts, mainPc, tasks, futures, all_audios, emitted,
                   gruut_lang, errLine, vocabStores, handlesUsed>>

\* The thread is done with what the call returned or raised.
FinishCall(c) ==
    /\ call[c].pc \in {"returned", "raised"}
    /\ call' = [call EXCEPT ![c] = IdleCall]
    /\ UNCHANGED <<ttsUnchanged, gruut_lang, vocabStores, handlesUsed>>

NextCalls ==
    \E c \in Callers :
        \/ StartCall(c)
        \/ TtsStep(c)
        \/ FinishCall(c)

SpecCalls == InitCalls /\ [][NextCalls]_vars

\* ------------------------------------------------------------- claims

\* The sentences of call c that contributed phonemes.
Contributing(c) == Len(call[c].text_sents)

\* C1: for a text with two or more sentences that yield phonemes,
\* text_to_speech hands back one audio per such sentence, and the first is
\* handed to the caller before mel or vocoder inference has run for a later
\* sentence.  (The mel call of line 105 takes the ids of all the sentences.)
C1_PairPerSentence ==
    \A c \in Callers :
        Contributing(c) >= 2 =>
            /\ call[c].pc = "returned" => call[c].handed = Contributing(c)
            /\ call[c].melCalls > 0 => call[c].handed >= 1

\* A log of audios is in input order: the lines increase from one audio to
\* the next, and inside an audio the sentences increase.
InOrder(log) ==
    /\ \A i, j \in DOMAIN log : i < j => log[i].line < log[j].line
    /\ \A i \in DOMAIN log :
          \A k, l \in DOMAIN log[i].sents :
              k < l => log[i].sents[k] < log[i].sents[l]

VocoderWaits(i) ==
    /\ i \in TasksOf("vocoder")
    /\ tasks[i].state = "queued"
    /\ \E j \in TasksOf("tts") : tasks[j].state = "running"

BothLoading ==
    /\ \E j \in TasksOf("tts") : tasks[j].state = "running"
    /\ \E i \in TasksOf("vocoder") : tasks[i].state = "running"

\* C4 as stated: for every pool size, 1 included, the vocoder load does not
\* have to wait for the mel load: whenever it is queued while the mel load
\* runs, a worker can start it.
C4_Original ==
    \A i \in 1..4 : VocoderWaits(i) => ENABLED StartTask(i)

\* C4 as amended: for every pool size but 1 the vocoder load never has to
\* wait for the mel load; with --max-thread-workers 1 the two loads are
\* never in progress at the same time.
C4_Amended ==
    /\ args.max_thread_workers # 1 =>
          \A i \in 1..4 : VocoderWaits(i) => ENABLED StartTask(i)
    /\ args.max_thread_workers = 1 => ~BothLoading

C4_Witness == args.max_thread_workers = 2 /\ BothLoading

\* C5: under any interleaving of calls that share a language object, the
\* vocabulary is stored at most once.
C5_VocabStoredOnce == vocabStores <= 1

\* C6: the phoneme sequence of every sentence that contributes phonemes
\* ends with two major breaks, and so does the text's sequence.
C6_EndsWithTwoBreaks ==
    \A c \in Callers :
        /\ call[c].first_pron # <<>> =>
              /\ Len(call[c].first_pron) >= 2
              /\ call[c].first_pron[Len(call[c].first_pron)] = BREAK_MAJOR
              /\ call[c].first_pron[Len(call[c].first_pron) - 1] = BREAK_MAJOR
        /\ call[c].text_phonemes # <<>> =>
              /\ Len(call[c].text_phonemes) >= 2
              /\ call[c].text_phonemes[Len(call[c].text_phonemes)] = BREAK_MAJOR
              /\ call[c].text_phonemes[Len(call[c].text_phonemes) - 1] = BREAK_MAJOR

\* A sentence whose phonemizer output already ended with a major break.
C6_Witness ==
    \E c \in Callers :
        LET raw == FirstPron(call[c].sentence_prons) IN
            /\ Len(raw) >= 2
            /\ raw[Len(raw)] = BREAK_MAJOR
            /\ call[c].first_pron = Append(raw, BREAK_MAJOR)

\* C7: the id sequence handed to the mel stage is never empty.
C7_NoEmptyDownstream ==
    \A c \in Callers : call[c].melCalls > 0 => call[c].melInput = "nonempty"

Vocabulary == DOMAIN PhonemeToId(id_to_phonemes)

HasUnknown(c) ==
    \E i \in DOMAIN call[c].text_phonemes : call[c].text_phonemes[i] \notin Vocabulary

\* C8: a text with a symbol the vocabulary lacks ends, once its sentences
\* are phonemized, in a KeyError: no id is made up, no mel or vocoder
\* inference has run, nothing is returned and no audio of the line is emitted.
C8_UnknownSymbolRaises ==
    \A c \in Callers :
        (HasUnknown(c) /\ call[c].pc # "loop") =>
            /\ call[c].pc = "raised"
            /\ call[c].s_idx = call[c].n_sent => call[c].err = KeyError
            /\ call[c].phoneme_ids = <<>>
            /\ call[c].melCalls = 0
            /\ call[c].vocCalls = 0
            /\ call[c].results = <<>>
            /\ call[c].handed = 0
            /\ \A i \in DOMAIN emitted : emitted[i].line # call[c].line
            /\ \A i \in DOMAIN all_audios : all_audios[i].line # call[c].line

C8_Witness ==
    \E c \in Callers :
        /\ HasUnknown(c)
        /\ call[c].text_phonemes[1] \in Vocabulary
        /\ call[c].pc = "raised"
        /\ call[c].err = KeyError

\* C9: main never finishes normally while a load task has failed.
C9_LoadErrorSurfaces ==
    mainPc = "done" => \A i \in DOMAIN tasks : tasks[i].state # "failed"

NoAudioFrom(line) ==
    /\ \A i \in DOMAIN emitted : emitted[i].line < line
    /\ \A i \in DOMAIN all_audios : all_audios[i].line < line

\* C10 as stated: an error in one line aborts that line only: with lines
\* left in the input, main can go on to read the next one.
C10_Original ==
    (errLine # 0 /\ lineNo < texts) => ENABLED (ReadBlankLine \/ ReadTextLine)

\* C10 as amended: an error raised while a line is processed leaves
\* text_to_speech and, uncaught, main: no audio of the failing line is
\* emitted, and main reads no further line.
C10_Amended ==
    /\ call[MainCaller].pc = "raised" =>
          /\ call[MainCaller].results = <<>>
          /\ NoAudioFrom(call[MainCaller].line)
    /\ errLine # 0 =>
          /\ mainPc = "failed"
          /\ lineNo = errLine
          /\ call[MainCaller].pc = "raised"
          /\ call[MainCaller].line = errLine
          /\ NoAudioFrom(errLine)

C10_Witness ==
    /\ errLine = 1
    /\ texts = 2
    /\ mainPc = "failed"
    /\ call[MainCaller].err = "InferenceError"

\* ------------------------------------------------- get_args, the loaders

\* An optional value: {} is None, {v} is the value v.
None == {}
Some(v) == {v}
Value(o) == CHOOSE v \in o : TRUE
\* Python truth of an optional string: None and "" are false.
Truthy(o) == o # None /\ o # Some("")

\* The members of the mel-stage type enumeration, by value, in the order of
\* their options: get_args reads the option of each value, main names
\* TextToSpeechType.GLOW_TTS.
TextToSpeechType == <<"tacotron2", "glow_tts">>

\* The members of the vocoder type enumeration, by value: the fallback and
\* the two vocoder options get_args reads.
VocoderType == <<"griffin_lim", "hifi_gan", "waveglow">>

GRIFFIN_LIM == "griffin_lim"

\* What --tacotron2, --glow-tts, --hifi-gan, --waveglow can hold:
\* not given, given empty, given with a path.
FlagValues(path) == {None, Some(""), Some(path)}

\* The suffix of the voice name after its last "-": --voice not given, a
\* voice of either mel-stage type, a voice whose name ends in something else.
VoiceSuffixes == {None, Some("tacotron2"), Some("glow_tts"), Some("v1")}

Qualities == {"high", "medium", "low"}

\* download_voice: the directory, nothing, or an error.
DownloadOutcomes == {"dir", "none", "raises"}

StartCli ==
    [pc : {"voice"},
     voice : VoiceSuffixes, voice_found : BOOLEAN,
     tacotron2 : {None, Some("tacotron2_dir")},
     glow_tts : {None, Some("glow_tts.onnx")},
     hifi_gan : FlagValues("hifi_gan.onnx"),
     waveglow : FlagValues("waveglow.onnx"),
     quality : Qualities, vocoder_found : BOOLEAN, no_download : BOOLEAN,
     download : DownloadOutcomes,
     tts_model_type : {None}, tts_model : {None},
     vocoder_model_type : {None}, vocoder_model : {None},
     tts_load : {"none"}, vocoder_load : {"none"},
     err : {"none"}]

ValueError == "ValueError"

\* load_tts_model: the handle of the implementation, or the error raised.
load_tts_model(model_type) ==
    IF model_type = "tacotron2"
    THEN [raises |-> "none", handle |-> "Tacotron2TextToSpeech"]
    ELSE [raises |-> ValueError, handle |-> "none"]

\* load_vocoder_model: the handle of the implementation, or the error raised.
load_vocoder_model(model_type) ==
    IF model_type = GRIFFIN_LIM
    THEN [raises |-> "none", handle |-> "GriffinLimVocoder"]
    ELSE IF model_type = "hifi_gan"
    THEN [raises |-> "none", handle |-> "HiFiGanVocoder"]
    ELSE [raises |-> ValueError, handle |-> "none"]

\* Lines 664-669: the name of the default vocoder for the quality.
VocoderModelName(quality) ==
    IF quality = "medium" THEN "vctk_medium"
    ELSE IF quality = "low" THEN "vctk_small"
    ELSE "universal_large"

\* str(voices_dir / vocoder_model_type / vocoder_model_name)
VocoderModelDir(quality) ==
    LET vocoder_model_name == VocoderModelName(quality)
    IN  IF vocoder_model_name = "vctk_medium" THEN "hifi_gan/vctk_medium"
        ELSE IF vocoder_model_name = "vctk_small" THEN "hifi_gan/vctk_small"
        ELSE "hifi_gan/universal_large"

cliUnchanged == <<phon, args, texts, lineNo, mainPc, tasks, futures, all_audios,
                  emitted, gruut_lang, call, errLine, vocabStores, handlesUsed>>

\* Lines 620-658: --voice sets the type from the end of the voice name.
ResolveVoice ==
    /\ cli.pc = "voice"
    /\ IF cli.voice = None
       THEN cli' = [cli EXCEPT !.pc = "vocoder_defaults"]
       ELSE IF ~cli.voice_found
       THEN cli' = [cli EXCEPT !.pc = "raised", !.err = "AssertionError"]
       ELSE cli' = [cli EXCEPT !.pc = "vocoder_defaults",
                               !.tts_model_type = cli.voice,
                               !.tts_model = Some("voice_dir")]
    /\ UNCHANGED cliUnchanged

\* Lines 660-686: the default vocoder, searched in the voices directories
\* and downloaded when it is not there.
VocoderDefaults ==
    /\ cli.pc = "vocoder_defaults"
    /\ LET searched == IF cli.vocoder_found THEN "dir" ELSE "none"
           vocoder_model_dir ==
               IF searched = "none" /\ ~cli.no_download THEN cli.download
               ELSE searched
       IN  IF vocoder_model_dir = "raises"
           THEN cli' = [cli EXCEPT !.pc = "raised", !.err = "DownloadError",
                                   !.vocoder_model_type = Some("hifi_gan")]
           ELSE cli' = [cli EXCEPT
                   !.pc = "ensure_tts",
                   !.vocoder_model_type = Some("hifi_gan"),
                   !.vocoder_model =
                       IF vocoder_model_dir = "dir"
                       THEN Some(VocoderModelDir(cli.quality))
                       ELSE cli.vocoder_model]
    /\ UNCHANGED cliUnchanged

\* Lines 691-698: one option of the loop over the mel-stage types.
RECURSIVE EnsureTtsModelFrom(_, _)
EnsureTtsModelFrom(a, i) ==
    IF i > Len(TextToSpeechType) \/ a.err # "none" THEN a
    ELSE LET arg == TextToSpeechType[i]
             value == a[arg]
         IN  IF ~Truthy(value) THEN EnsureTtsModelFrom(a, i + 1)
             ELSE IF a.tts_model # None
             THEN [a EXCEPT !.err = ValueError]
             ELSE EnsureTtsModelFrom(
                      [a EXCEPT !.tts_model_type = Some(arg), !.tts_model = value],
                      i + 1)

\* Lines 688-703: exactly one mel-stage model, or no run.
EnsureTtsModel ==
    /\ cli.pc = "ensure_tts"
    /\ LET a == EnsureTtsModelFrom(cli, 1)
       IN  IF a.err # "none" THEN cli' = [a EXCEPT !.pc = "raised"]
           ELSE IF a.tts_model = None
           THEN cli' = [a EXCEPT !.pc = "exit", !.err = "SystemExit"]
           ELSE cli' = [a EXCEPT !.pc = "vocoder_flags"]
    /\ UNCHANGED cliUnchanged

\* Lines 714-719: one option of the loop over the vocoder types but the
\* fallback; a given option overwrites what is set.
RECURSIVE CheckVocoderFrom(_, _)
CheckVocoderFrom(a, i) ==
    IF i > Len(VocoderType) THEN a
    ELSE LET arg == VocoderType[i]
         IN  IF arg = GRIFFIN_LIM \/ ~Truthy(a[arg])
             THEN CheckVocoderFrom(a, i + 1)
             ELSE CheckVocoderFrom(
                      [a EXCEPT !.vocoder_model_type = Some(arg),
                                !.vocoder_model = a[arg]],
                      i + 1)

\* Lines 710-719.
CheckVocoderFlags ==
    /\ cli.pc = "vocoder_flags"
    /\ cli' = [CheckVocoderFrom(cli, 1) EXCEPT !.pc = "paths"]
    /\ UNCHANGED cliUnchanged

\* The mutant of VocoderFallback: what is set is kept, no fallback.
VocoderFallback_keep(vocoder_model_type, vocoder_model) ==
    [type |-> vocoder_model_type, path |-> vocoder_model]

\* Lines 724-729: without a vocoder model, Griffin-Lim in the working
\* directory.
VocoderFallback(vocoder_model_type, vocoder_model) ==
    IF Truthy(vocoder_model)
    THEN [type |-> vocoder_model_type, path |-> vocoder_model]
    ELSE [type |-> Some(GRIFFIN_LIM), path |-> Some("cwd")]

\* Lines 721-729: the end of the argument resolution.
ConvertPaths ==
    /\ cli.pc = "paths"
    /\ LET v == VocoderFallback(cli.vocoder_model_type, cli.vocoder_model)
       IN  cli' = [cli EXCEPT !.pc = "load",
                              !.vocoder_model_type = v.type,
                              !.vocoder_model = v.path]
    /\ UNCHANGED cliUnchanged

\* async_load_tts: load_tts_model(model_type=args.tts_model_type, ...)
LoadTts ==
    /\ cli.pc = "load"
    /\ cli.tts_load = "none"
    /\ LET r == load_tts_model(Value(cli.tts_model_type))
       IN  cli' = [cli EXCEPT !.tts_load = IF r.raises = "none" THEN r.handle
                                           ELSE r.raises]
    /\ UNCHANGED cliUnchanged

\* async_load_vocoder: load_vocoder_model(model_type=args.vocoder_model_type, ...)
LoadVocoder ==
    /\ cli.pc = "load"
    /\ cli.vocoder_load = "none"
    /\ LET r == load_vocoder_model(Value(cli.vocoder_model_type))
       IN  cli' = [cli EXCEPT !.vocoder_load = IF r.raises = "none" THEN r.handle
                                               ELSE r.raises]
    /\ UNCHANGED cliUnchanged

\* A start of the program: the options, then get_args, then the two loads.
InitStartup ==
    /\ cli \in StartCli
    /\ phon = NoPhon
    /\ args = [max_thread_workers |-> 0, sink |-> "stream"]
    /\ texts = 0
    /\ lineNo = 0
    /\ mainPc = "get_args"
    /\ tasks = <<>>
    /\ futures = [tts |-> 0, vocoder |-> 0]
    /\ all_audios = <<>>
    /\ emitted = <<>>
    /\ gruut_lang = {}
    /\ call = [c \in Callers |-> IdleCall]
    /\ errLine = 0
    /\ vocabStores = 0
    /\ handlesUsed = {}

NextStartup ==
    \/ ResolveVoice
    \/ VocoderDefaults
    \/ EnsureTtsModel
    \/ CheckVocoderFlags
    \/ ConvertPaths
    \/ LoadTts
    \/ LoadVocoder

SpecStartup == InitStartup /\ [][NextStartup]_vars

\* The type tag of the implementation behind a handle.
HandleFamily == [Tacotron2TextToSpeech |-> "tacotron2",
                 GriffinLimVocoder |-> GRIFFIN_LIM,
                 HiFiGanVocoder |-> "hifi_gan"]

\* C11: once a loader has run, a tag of its enumeration has given a handle
\* of the implementation of that tag, and every other tag has raised
\* ValueError and given no handle.
C11_LoadersDispatch ==
    /\ cli.pc = "load" /\ cli.tts_load # "none" =>
          LET tag == Value(cli.tts_model_type)
          IN  IF tag \in Range(TextToSpeechType)
              THEN cli.tts_load # ValueError /\ HandleFamily[cli.tts_load] = tag
              ELSE cli.tts_load = ValueError
    /\ cli.pc = "load" /\ cli.vocoder_load # "none" =>
          LET tag == Value(cli.vocoder_model_type)
          IN  IF tag \in Range(VocoderType)
              THEN cli.vocoder_load # ValueError
                   /\ HandleFamily[cli.vocoder_load] = tag
              ELSE cli.vocoder_load = ValueError

\* A vocoder option was given with a path, or the default vocoder was found
\* or downloaded.
VocoderDirResolved ==
    cli.vocoder_found \/ (~cli.no_download /\ cli.download = "dir")

VocoderResolved ==
    Truthy(cli.hifi_gan) \/ Truthy(cli.waveglow) \/ VocoderDirResolved

\* The paths that were resolved for a vocoder type.
ResolvedPaths(type) ==
    IF type = "hifi_gan"
    THEN {o \in {cli.hifi_gan} : Truthy(o)}
         \cup (IF VocoderDirResolved THEN {Some(VocoderModelDir(cli.quality))}
               ELSE {})
    ELSE IF type = "waveglow"
    THEN {o \in {cli.waveglow} : Truthy(o)}
    ELSE {}

\* C15: after get_args the vocoder type is Griffin-Lim exactly when no
\* vocoder path was resolved (no vocoder option given, no vocoder directory
\* found or downloaded); otherwise the type is a neural vocoder and the path
\* is one resolved for that type; the vocoder path is never unset.
C15_GriffinLimIffNoVocoder ==
    cli.pc = "load" =>
        /\ (cli.vocoder_model_type = Some(GRIFFIN_LIM)) <=> ~VocoderResolved
        /\ VocoderResolved =>
               cli.vocoder_model \in ResolvedPaths(Value(cli.vocoder_model_type))
        /\ Truthy(cli.vocoder_model)

\* get_args has ended with the fallback: nothing found, nothing downloaded,
\* --hifi-gan given empty.
C15_Witness ==
    /\ cli.pc = "load"
    /\ cli.vocoder_model_type = Some(GRIFFIN_LIM)
    /\ cli.vocoder_model = Some("cwd")
    /\ cli.hifi_gan = Some("")
    /\ ~cli.no_download /\ cli.download = "none"

\* ------------------------------------------------- claims of text_to_speech

\* C13: the real-time factor is a reported value only: whatever the measured
\* times are, an elapsed inference time of zero included, a call of
\* text_to_speech never ends with an error of the metric computation.
C13_RtfNeverFails ==
    \A c \in Callers :
        call[c].pc = "raised" => call[c].err # "ZeroDivisionError"

\* C16: every symbol of a sentence's phoneme sequence is a non-empty string,
\* whatever the phonemizer returns, a phoneme that is the stress marker alone
\* included.
C16_NoEmptySymbol ==
    \A c \in Callers :
        \A i \in DOMAIN call[c].first_pron : call[c].first_pron[i] # <<>>

\* ------------------------------------------------- the phoneme functions

\* The phoneme maps that are tried: empty, one entry, two entries.
PhonemeMaps ==
    { [p \in {} |-> <<>>],
      (<<"a">> :> <<"b">>),
      (<<"a">> :> <<"b">>) @@ (<<"b">> :> <<"'", "a">>) }

\* The phonemes the transform is applied to.
TransformInputs == {<<"a">>, <<"b">>, <<"z">>}

\* The ordered phoneme lists that are tried: the language's list, a list
\* with one symbol twice, a list of one symbol.
PhonemeLists ==
    { id_to_phonemes,
      << <<"a">>, <<"b">>, <<"a">> >>,
      << <<"_">> >> }

\* Symbols in one encoded sequence, at most.
MaxSymbols == 2

\* The sequences of at most MaxSymbols elements of S.
SeqsUpTo(S) == UNION {[1..n -> S] : n \in 0..MaxSymbols}

\* Line 123: phoneme_map.get(p, p)
PhonemeMapGet(phoneme_map, p) ==
    IF p \in DOMAIN phoneme_map THEN phoneme_map[p] ELSE p

\* Lines 122-123: the body evaluates phoneme_map.get(p, p) as an expression
\* statement and ends without a return statement: the call gives None.
phoneme_map_transform(phoneme_map, p) ==
    LET value == PhonemeMapGet(phoneme_map, p) IN None

IndexError == "IndexError"

\* phonemes_list[i] for every id i, in order; Python indexes from 0.
DecodeIds(phonemes_list, ids) ==
    IF \E k \in DOMAIN ids : ids[k] + 1 \notin DOMAIN phonemes_list
    THEN [raises |-> IndexError, phonemes |-> <<>>]
    ELSE [raises |-> "none",
          phonemes |-> [k \in DOMAIN ids |-> phonemes_list[ids[k] + 1]]]

StartPhon ==
    [pc : {"start"},
     phoneme_language : BOOLEAN, phoneme_map : PhonemeMaps,
     phoneme_transform : {"unset"}, p : {<<>>}, transformed : {None},
     phonemes_list : PhonemeLists,
     text_phonemes : {<<>>}, phoneme_ids : {<<>>}, decoded : {<<>>},
     err : {"none"}]

phonUnchanged == <<cli, args, texts, lineNo, mainPc, tasks, futures, all_audios,
                   emitted, gruut_lang, call, errLine, vocabStores, handlesUsed>>

\* Lines 87-125: with --phoneme-language the transform is the closure over
\* the phoneme map, without it there is none.
BuildPhonemeTransform ==
    /\ phon.phoneme_transform = "unset"
    /\ phon' = [phon EXCEPT !.phoneme_transform =
                   IF phon.phoneme_language THEN "phoneme_map_transform"
                   ELSE "None"]
    /\ UNCHANGED phonUnchanged

\* A call phoneme_transform(p).
ApplyPhonemeTransform ==
    /\ phon.phoneme_transform = "phoneme_map_transform"
    /\ \E p \in TransformInputs :
          phon' = [phon EXCEPT
              !.phoneme_transform = "called",
              !.p = p,
              !.transformed = phoneme_map_transform(phon.phoneme_map, p)]
    /\ UNCHANGED phonUnchanged

\* Lines 42-48 and 100: a sequence of symbols of the vocabulary is encoded.
EncodeSymbols ==
    /\ phon.pc = "start"
    /\ \E text_phonemes \in SeqsUpTo(Range(phon.phonemes_list)) :
          LET enc == EncodeIds(PhonemeToId(phon.phonemes_list), text_phonemes)
          IN  IF enc.raises # "none"
              THEN phon' = [phon EXCEPT !.pc = "raised", !.err = enc.raises,
                                        !.text_phonemes = text_phonemes]
              ELSE phon' = [phon EXCEPT !.pc = "encoded",
                                        !.text_phonemes = text_phonemes,
                                        !.phoneme_ids = enc.ids]
    /\ UNCHANGED phonUnchanged

\* The ids are mapped back through the ordered phoneme list.
DecodeSymbols ==
    /\ phon.pc = "encoded"
    /\ LET dec == DecodeIds(phon.phonemes_list, phon.phoneme_ids)
       IN  IF dec.raises # "none"
           THEN phon' = [phon EXCEPT !.pc = "raised", !.err = dec.raises]
           ELSE phon' = [phon EXCEPT !.pc = "decoded", !.decoded = dec.phonemes]
    /\ UNCHANGED phonUnchanged

InitPhonemes ==
    /\ phon \in StartPhon
    /\ cli = NoCli
    /\ args = [max_thread_workers |-> 0, sink |-> "stream"]
    /\ texts = 0
    /\ lineNo = 0
    /\ mainPc = "lib"
    /\ tasks = <<>>
    /\ futures = [tts |-> 0, vocoder |-> 0]
    /\ all_audios = <<>>
    /\ emitted = <<>>
    /\ gruut_lang = {}
    /\ call = [c \in Callers |-> IdleCall]
    /\ errLine = 0
    /\ vocabStores = 0
    /\ handlesUsed = {}

NextPhonemes ==
    \/ BuildPhonemeTransform
    \/ ApplyPhonemeTransform
    \/ EncodeSymbols
    \/ DecodeSymbols

SpecPhonemes == InitPhonemes /\ [][NextPhonemes]_vars

\* C12: the phoneme transform built when a phoneme language is set gives,
\* for a phoneme p, the value the phoneme map holds for p when p is a key of
\* the map, and p itself when p is not a key.
C12_TransformMapsOrKeeps ==
    phon.phoneme_transform = "called" =>
        phon.transformed =
            Some(IF phon.p \in DOMAIN phon.phoneme_map
                 THEN phon.phoneme_map[phon.p]
                 ELSE phon.p)

\* C14: a sequence of symbols of the vocabulary that was encoded with
\* phoneme_to_id and decoded through the ordered phoneme list is the
\* original sequence: the same symbols, length and order; neither step
\* raises.
C14_RoundTrip ==
    /\ phon.pc # "raised"
    /\ phon.pc = "decoded" =>
          /\ phon.decoded = phon.text_phonemes
          /\ Len(phon.phoneme_ids) = Len(phon.text_phonemes)

\* Two different symbols were encoded and decoded, the first of them being
\* twice in the phoneme list.
C14_Witness ==
    /\ phon.pc = "decoded"
    /\ Len(phon.text_phonemes) = 2
    /\ phon.text_phonemes[1] # phon.text_phonemes[2]
    /\ \E i, j \in DOMAIN phon.phonemes_list :
          /\ i < j
          /\ phon.phonemes_list[i] = phon.text_phonemes[1]
          /\ phon.phonemes_list[j] = phon.text_phonemes[1]

=============================================================================
